---- MODULE Spec2Model ----
(***************************************************************************)
(* State-machine model of the universal-llm-hub dispatch engine:           *)
(*   LLMProviderManager  (registry, router, adapters, statistics)          *)
(*   CommandProcessor    (comparison mode)                                 *)
(*   ConversationManager (bounded conversation context)                    *)
(*   UserManager         (subscriptions and usage counters)                *)
(*   SlackApp            (handleMessage)                                   *)
(*                                                                         *)
(* Numbers.  Prices are kept in units of 1e-4 dollar per 1000 tokens, so   *)
(* a cost is an integer number of 1e-7 dollars.  Latency estimates and     *)
(* scores are exact rationals <<n, d>> with d > 0, kept in lowest terms.   *)
(***************************************************************************)
EXTENDS Integers, Sequences, FiniteSets, Bags, TLC

VARIABLES
    constructed,    \* whether the LLMProviderManager has been constructed
    customEndpoints, \* process.env.CUSTOM_LLM_ENDPOINTS
    customBackends, \* the custom entries of LLMProviderManager.providers
    providers,      \* LLMProviderManager.providers: the keys of the map
    stats,          \* LLMProviderManager.stats: <<provider, model>> -> ProviderStats
    hist,           \* per key, the latency samples handed to updateStats, in order
    served,         \* per key, the bag of responses processRequest returned
    flight,         \* dispatches suspended at the adapter's network call
    decision,       \* what the last smartRouting call computed
    done,           \* outcome of the processRequest call that settled last
    ncalls,         \* number of processRequest calls started so far
    subscriptions,  \* UserManager.subscriptions: key -> subscription
    usageObj,       \* heap of usage objects the subscriptions point to
    cmp,            \* the comparison command in progress
    cmpResult,      \* what the last processCommand('compare') returned
    redis,          \* ConversationManager's store: key -> serialized context
    appended,       \* per conversation key, the messages handed to addMessage
    adding,         \* addMessage calls suspended at the store's answer
    ask,            \* per kind, the ask command or channel message in progress
    said,           \* what the last ask command or message handler answered
    wire            \* the last call an adapter sent to its backend

vars == <<constructed, customEndpoints, customBackends, providers, stats, hist, served,
          flight, decision, done, ncalls, subscriptions, usageObj, cmp,
          cmpResult, redis, appended, adding, ask, said, wire>>

registryVars == <<constructed, customEndpoints, customBackends, providers>>

engineVars  == <<registryVars, stats, hist, served, flight, decision, done, ncalls>>
userVars    == <<subscriptions, usageObj>>
cmpVars     == <<cmp, cmpResult>>
convVars    == <<redis, appended, adding>>
askVars     == <<ask, said>>
adapterVars == <<wire>>

---------------------------------------------------------------------------
(* Bounds *)

MaxCalls == 3       \* processRequest calls per behaviour
MaxFlight == 2      \* direct dispatches that may overlap in time
MaxAppends == 25    \* addMessage calls per conversation key
MaxContext == 3     \* messages of the context a request carries
MaxEndpointLen == 7 \* pieces of the custom endpoint list
MaxAnswered == 12   \* answered commands of the frame specification
MaxOverlap == 2     \* addMessage calls that may overlap in time
MaxStoreCalls == 4  \* addMessage calls per key when calls may overlap

---------------------------------------------------------------------------
(* Exact rationals *)

RECURSIVE GCD(_, _)
GCD(a, b) == IF b = 0 THEN a ELSE GCD(b, a % b)

Rat(n, d) == LET g == GCD(n, d) IN <<n \div g, d \div g>>

\* Comparisons and sums go through the least common denominator, which
\* keeps the intermediate products small.
LCD(x, y) == (x[2] \div GCD(x[2], y[2])) * y[2]

OnLCD(x, y) == x[1] * (LCD(x, y) \div x[2])

RatLeq(x, y) == OnLCD(x, y) <= OnLCD(y, x)

RatLess(x, y) == OnLCD(x, y) < OnLCD(y, x)

RatAdd(x, y) == Rat(OnLCD(x, y) + OnLCD(y, x), LCD(x, y))

RatMul(x, y) == LET a == Rat(x[1], y[2])
                    b == Rat(y[1], x[2])
                IN  Rat(a[1] * b[1], a[2] * b[2])

RatHalf(x) == Rat(x[1], 2 * x[2])

RatMin(x, y) == IF RatLeq(x, y) THEN x ELSE y

---------------------------------------------------------------------------
(* Backend registry *)

\* Insertion order of the providers map: initializeProviders, then the
\* custom endpoints.
ProviderOrder == <<"openai", "anthropic", "groq", "ollama", "custom_local">>

BuiltIn == {"openai", "anthropic", "groq", "ollama"}

Custom == "custom_local"

NoConfig ==
    [defined |-> FALSE, models |-> <<>>, inputTokens |-> 0, outputTokens |-> 0,
     codeGeneration |-> FALSE, documentAnalysis |-> FALSE]

providerConfigs(p) ==
    CASE p = "openai" ->
           [defined |-> TRUE,
            models |-> <<"gpt-4", "gpt-4-turbo", "gpt-3.5-turbo", "gpt-4o", "gpt-4o-mini">>,
            inputTokens |-> 300, outputTokens |-> 600,
            codeGeneration |-> TRUE, documentAnalysis |-> TRUE]
      [] p = "anthropic" ->
           [defined |-> TRUE,
            models |-> <<"claude-3-5-sonnet-20241022", "claude-3-haiku-20240307",
                         "claude-3-opus-20240229">>,
            inputTokens |-> 150, outputTokens |-> 750,
            codeGeneration |-> TRUE, documentAnalysis |-> TRUE]
      [] p = "groq" ->
           [defined |-> TRUE,
            models |-> <<"llama-3.1-405b-reasoning", "llama-3.1-70b-versatile",
                         "mixtral-8x7b-32768">>,
            inputTokens |-> 5, outputTokens |-> 8,
            codeGeneration |-> TRUE, documentAnalysis |-> TRUE]
      [] p = "ollama" ->
           [defined |-> TRUE,
            models |-> <<"llama2", "codellama", "mistral", "neural-chat">>,
            inputTokens |-> 0, outputTokens |-> 0,
            codeGeneration |-> TRUE, documentAnalysis |-> TRUE]
      [] OTHER -> NoConfig

\* The environments the process may be started in: which credentials are
\* set, and whether a custom endpoint is configured.
Environments ==
    { {}, {Custom}, {"ollama", "openai"}, {"openai", "anthropic"},
      {"openai", "anthropic", "groq"}, {"groq", "ollama", Custom} }

\* getAvailableProviders: every profile (here: the name it is filed
\* under), whether its backend is configured or not.
getAvailableProviders == {p \in BuiltIn : providerConfigs(p).defined}

isProviderAvailable(p) == p \in providers

\* A router that enumerates every known backend name instead of the
\* configured ones.
availableProviders_all == ProviderOrder

\* Array.from(this.providers.keys())
availableProviders == SelectSeq(ProviderOrder, LAMBDA p : p \in providers)

---------------------------------------------------------------------------
(* Custom endpoints *)

NoFunction == [x \in {} |-> 0]

\* A string of the environment is a sequence of pieces: a separator
\* character, or a run of characters that holds none of them.
Pieces == {"local", ":", "/", ","}

\* The values CUSTOM_LLM_ENDPOINTS may have, the unset one included.
EndpointLists == UNION {[1..n -> Pieces] : n \in 0..MaxEndpointLen}

\* The endpoint that stands behind the backend custom_local.
LocalEndpoint == <<"local", ":", "local">>

\* String.prototype.split with a one-character separator.
RECURSIVE split(_, _)
split(s, sep) ==
    IF \A i \in 1..Len(s) : s[i] # sep THEN <<s>>
    ELSE LET i == CHOOSE j \in 1..Len(s) :
                     s[j] = sep /\ \A k \in 1..(j - 1) : s[k] # sep
         IN  <<SubSeq(s, 1, i - 1)>> \o split(SubSeq(s, i + 1, Len(s)), sep)

\* String.prototype.includes
includes(s, sub) ==
    \E i \in 1..(Len(s) - Len(sub) + 1) : SubSeq(s, i, i + Len(sub) - 1) = sub

\* const [name, url] = parts: an element the array does not have is
\* undefined, which the test `name && url` treats as the empty string.
Element(parts, i) == IF i <= Len(parts) THEN parts[i] ELSE <<>>

\* The pieces written one after the other.
RECURSIVE Join(_)
Join(s) == IF s = <<>> THEN "" ELSE Head(s) \o Join(Tail(s))

\* `custom_${name}`
CustomKey(name) == Join(<<"custom_">> \o name)

\* url.includes('://') ? url : `http://${url}`
baseURL(url) ==
    IF includes(url, <<":", "/", "/">>) THEN url
    ELSE <<"http", ":", "/", "/">> \o url

\* One round of endpoints.forEach on the map built so far.
SetEndpoint(backends, endpoint) ==
    LET parts == split(endpoint, ":")
        name  == Element(parts, 1)
        url   == Element(parts, 2)
    IN  IF name # <<>> /\ url # <<>>
        THEN [k \in DOMAIN backends \cup {CustomKey(name)} |->
                 IF k = CustomKey(name)
                 THEN [baseURL |-> baseURL(url), type |-> "custom"]
                 ELSE backends[k]]
        ELSE backends

\* initializeCustomEndpoints: the custom entries of the providers map.
initializeCustomEndpoints(env) ==
    LET endpoints == split(env, ",")
        RECURSIVE Each(_)
        Each(n) == IF n = 0 THEN NoFunction
                   ELSE SetEndpoint(Each(n - 1), endpoints[n])
    IN  IF env = <<>> THEN NoFunction ELSE Each(Len(endpoints))

\* new LLMProviderManager() in a process that has the custom endpoint list
\* and no credentials.
Construct ==
    /\ ~constructed
    /\ constructed' = TRUE
    /\ customBackends' = initializeCustomEndpoints(customEndpoints)
    /\ providers' = providers \cup DOMAIN customBackends'
    /\ UNCHANGED <<customEndpoints, stats, hist, served, flight, decision, done,
                   ncalls, userVars, cmpVars, convVars, askVars, adapterVars>>

---------------------------------------------------------------------------
(* Router *)

One == <<1, 1>>

\* A cost factor that grows with the price.
costScore_rising(config) ==
    Rat(2000 + (config.inputTokens + config.outputTokens), 4000)

\* const costScore = 1 - (inputTokens + outputTokens) / 0.2
costScore(config) ==
    Rat(2000 - (config.inputTokens + config.outputTokens), 2000)

\* A performance factor without the cap at 1.
performanceScore_uncapped(provider, model) ==
    IF <<provider, model>> \in DOMAIN stats
    THEN LET a == stats[<<provider, model>>].averageLatency
         IN  IF a[1] = 0 THEN One ELSE Rat(1000 * a[2], a[1])
    ELSE <<1, 2>>

\* stats ? Math.min(1000 / stats.stats.averageLatency, 1) : 0.5
\* (1000 / 0 is Infinity, and the minimum is then 1)
performanceScore(provider, model) ==
    IF <<provider, model>> \in DOMAIN stats
    THEN LET a == stats[<<provider, model>>].averageLatency
         IN  IF a[1] = 0 THEN One ELSE RatMin(Rat(1000 * a[2], a[1]), One)
    ELSE <<1, 2>>

capabilityScore(request, config) ==
    LET files == IF request.hasFiles /\ config.documentAnalysis THEN 3 ELSE 0
        code  == IF request.hasCode /\ config.codeGeneration THEN 2 ELSE 0
    IN  Rat(5 + files + code, 10)

availabilityScore(provider) ==
    IF provider \in providers THEN One ELSE <<0, 1>>

\* The weighted sum; the factors are kept beside the total, as the
\* reasoning string of the source lists them.
calculateProviderScore(request, provider, model, config) ==
    LET c == costScore(config)
        f == performanceScore(provider, model)
        k == capabilityScore(request, config)
        a == availabilityScore(provider)
    IN  [provider |-> provider, model |-> model,
         score |-> RatAdd(RatAdd(RatMul(c, <<3, 10>>), RatMul(f, <<4, 10>>)),
                          RatAdd(RatMul(k, <<2, 10>>), RatMul(a, <<1, 10>>))),
         cost |-> c, performance |-> f, capability |-> k, availability |-> a]

\* The inner loop of smartRouting: one entry per model of the profile.
ScoreModels(request, provider, config) ==
    [i \in 1..Len(config.models) |->
        calculateProviderScore(request, provider, config.models[i], config)]

\* The outer loop: providers without a profile are skipped.
RECURSIVE ScoreProviders(_, _)
ScoreProviders(request, ps) ==
    IF ps = <<>> THEN <<>>
    ELSE LET config == providerConfigs(Head(ps))
         IN  (IF config.defined THEN ScoreModels(request, Head(ps), config) ELSE <<>>)
             \o ScoreProviders(request, Tail(ps))

\* An insertion that puts e in front of the entries of equal score.
RECURSIVE InsertScore_unstable(_, _)
InsertScore_unstable(s, e) ==
    IF s = <<>> THEN <<e>>
    ELSE IF RatLeq(Head(s).score, e.score) THEN <<e>> \o s
    ELSE <<Head(s)>> \o InsertScore_unstable(Tail(s), e)

\* Insert e into the descending sequence s after every entry that does not
\* score lower: Array.prototype.sort is stable.
RECURSIVE InsertScore(_, _)
InsertScore(s, e) ==
    IF s = <<>> THEN <<e>>
    ELSE IF RatLess(Head(s).score, e.score) THEN <<e>> \o s
    ELSE <<Head(s)>> \o InsertScore(Tail(s), e)

\* A sort with the comparator reversed (a.score - b.score).
RECURSIVE SortScores_ascending(_)
SortScores_ascending(s) ==
    IF s = <<>> THEN <<>>
    ELSE LET rest == SortScores_ascending(SubSeq(s, 1, Len(s) - 1))
             e    == s[Len(s)]
             keep == SelectSeq(rest, LAMBDA x : RatLeq(x.score, e.score))
             push == SelectSeq(rest, LAMBDA x : RatLess(e.score, x.score))
         IN  keep \o <<e>> \o push

\* scores.sort((a, b) => b.score - a.score)
RECURSIVE SortScores(_)
SortScores(s) ==
    IF s = <<>> THEN <<>>
    ELSE InsertScore(SortScores(SubSeq(s, 1, Len(s) - 1)), s[Len(s)])

NoDecision ==
    [call |-> 0, ok |-> FALSE, hasCode |-> FALSE, hasFiles |-> FALSE,
     selectedProvider |-> "", selectedModel |-> "", confidence |-> <<0, 1>>,
     ranked |-> <<>>]

\* smartRouting: best is scores[0] after the sort; reading best.provider
\* of an empty array throws a TypeError (ok = FALSE).
smartRouting(request, call) ==
    LET scores == SortScores(ScoreProviders(request, availableProviders))
    IN  IF scores = <<>>
        THEN [NoDecision EXCEPT !.call = call, !.hasCode = request.hasCode,
                                !.hasFiles = request.hasFiles]
        ELSE [call |-> call, ok |-> TRUE, hasCode |-> request.hasCode,
              hasFiles |-> request.hasFiles,
              selectedProvider |-> scores[1].provider,
              selectedModel |-> scores[1].model,
              confidence |-> scores[1].score,
              ranked |-> scores]

\* alternatives: scores.slice(1, 4)
alternatives(d) == SubSeq(d.ranked, 2, IF Len(d.ranked) < 4 THEN Len(d.ranked) ELSE 4)

---------------------------------------------------------------------------
(* Backend adapters *)

Undef == -1     \* a field the backend's JSON does not carry
NaN == -2       \* the result of arithmetic on undefined

Usage(p, c, t) ==
    [present |-> TRUE, prompt_tokens |-> p, completion_tokens |-> c, total_tokens |-> t]

NoUsage ==
    [present |-> FALSE, prompt_tokens |-> Undef, completion_tokens |-> Undef,
     total_tokens |-> Undef]

\* What a backend may report.  The SDK clients type the three counters as
\* numbers; the custom endpoint is read with axios and is untyped.
TypedUsages == {Usage(1000, 2000, 3000)}

UntypedUsages == {Usage(1000, 2000, Undef)}

BackendReplies(provider) ==
    CASE provider \in {"openai", "groq"} -> TypedUsages \cup {NoUsage}
      [] provider = "anthropic" -> {Usage(1000, 2000, Undef)}
      [] provider = "ollama" -> {NoUsage}
      [] OTHER -> UntypedUsages \cup {NoUsage}

\* OpenAI and Groq: usage: completion.usage
processOpenAIRequest(reply) == reply

processGroqRequest(reply) == reply

\* Anthropic: total_tokens is input_tokens + output_tokens
processAnthropicRequest(reply) ==
    Usage(reply.prompt_tokens, reply.completion_tokens,
          reply.prompt_tokens + reply.completion_tokens)

\* Ollama doesn't provide token counts
processOllamaRequest(reply) == Usage(0, 0, 0)

\* usage: response.data.usage || { prompt_tokens: 0, ... }
processCustomRequest(reply) == IF reply.present THEN reply ELSE Usage(0, 0, 0)

\* The switch of executeRequest.
Supported(provider) == provider \in BuiltIn \/ provider = Custom

AdapterUsage(provider, reply) ==
    CASE provider = "openai" -> processOpenAIRequest(reply)
      [] provider = "anthropic" -> processAnthropicRequest(reply)
      [] provider = "groq" -> processGroqRequest(reply)
      [] provider = "ollama" -> processOllamaRequest(reply)
      [] OTHER -> processCustomRequest(reply)

\* x || 0
OrZero(x) == IF x = Undef \/ x = NaN THEN 0 ELSE x

\* A cost computed with the two prices exchanged.
calculateCost_swapped(usage, config) ==
    IF ~usage.present \/ ~config.defined THEN 0
    ELSE IF usage.prompt_tokens = Undef \/ usage.completion_tokens = Undef THEN NaN
    ELSE usage.prompt_tokens * config.outputTokens
         + usage.completion_tokens * config.inputTokens

\* calculateCost(usage, pricing): 0 without usage or pricing
calculateCost(usage, config) ==
    IF ~usage.present \/ ~config.defined THEN 0
    ELSE IF usage.prompt_tokens = Undef \/ usage.completion_tokens = Undef THEN NaN
    ELSE usage.prompt_tokens * config.inputTokens
         + usage.completion_tokens * config.outputTokens

\* The number Infinity, next to the rationals <<n, d>> with d > 0.
Infinity == <<1, 0>>

\* response.usage?.total_tokens / (latency / 1000) || 0, in tokens per
\* second: undefined / x and 0 / 0 are NaN, n / 0 is Infinity for n > 0.
throughput(total_tokens, latency) ==
    IF total_tokens = Undef THEN <<0, 1>>
    ELSE IF latency = 0
    THEN (IF total_tokens = 0 THEN <<0, 1>> ELSE Infinity)
    ELSE Rat(total_tokens * 1000, latency)

NoResponse ==
    [provider |-> "", model |-> "", promptTokens |-> 0, completionTokens |-> 0,
     totalTokens |-> 0, cost |-> 0, latency |-> 0, throughput |-> <<0, 1>>]

\* The LLMResponse executeRequest assembles from the adapter's result.
BuildResponse(provider, model, usage, latency) ==
    [provider |-> provider, model |-> model,
     promptTokens |-> OrZero(usage.prompt_tokens),
     completionTokens |-> OrZero(usage.completion_tokens),
     totalTokens |-> OrZero(usage.total_tokens),
     cost |-> calculateCost(usage, providerConfigs(provider)),
     latency |-> latency,
     throughput |-> throughput(usage.total_tokens, latency)]

---------------------------------------------------------------------------
(* Statistics tracker *)

\* NaN + x is NaN
NumAdd(x, y) == IF x = NaN \/ y = NaN THEN NaN ELSE x + y

\* existing.stats.averageLatency = (existing.stats.averageLatency + latency) / 2
NextAverage(avg, latency) == RatHalf(RatAdd(avg, <<latency, 1>>))

\* An entry that starts without a success on record.
FirstStats_unrated(response, latency) ==
    [totalRequests |-> 1,
     totalTokens |-> response.totalTokens,
     totalCost |-> response.cost,
     averageLatency |-> <<latency, 1>>,
     successRate |-> 0]

\* The entry this.stats.set(key, ...) files on the first observation.
FirstStats(response, latency) ==
    [totalRequests |-> 1,
     totalTokens |-> response.totalTokens,
     totalCost |-> response.cost,
     averageLatency |-> <<latency, 1>>,
     successRate |-> 1]

\* A tracker that keeps the true mean of the samples.
updateStats_trueMean(st, provider, model, response, latency) ==
    LET key == <<provider, model>>
    IN  IF key \in DOMAIN st
        THEN [st EXCEPT ![key] =
                 [totalRequests |-> @.totalRequests + 1,
                  totalTokens |-> @.totalTokens + response.totalTokens,
                  totalCost |-> NumAdd(@.totalCost, response.cost),
                  averageLatency |->
                      RatMul(RatAdd(RatMul(@.averageLatency, <<@.totalRequests, 1>>),
                                    <<latency, 1>>),
                             <<1, @.totalRequests + 1>>),
                  successRate |-> @.successRate]]
        ELSE [k \in DOMAIN st \cup {key} |->
                 IF k = key
                 THEN [totalRequests |-> 1,
                       totalTokens |-> response.totalTokens,
                       totalCost |-> response.cost,
                       averageLatency |-> <<latency, 1>>,
                       successRate |-> 1]
                 ELSE st[k]]

updateStats(st, provider, model, response, latency) ==
    LET key == <<provider, model>>
    IN  IF key \in DOMAIN st
        THEN [st EXCEPT ![key] =
                 [totalRequests |-> @.totalRequests + 1,
                  totalTokens |-> @.totalTokens + response.totalTokens,
                  totalCost |-> NumAdd(@.totalCost, response.cost),
                  averageLatency |-> NextAverage(@.averageLatency, latency),
                  successRate |-> @.successRate]]
        ELSE [k \in DOMAIN st \cup {key} |->
                 IF k = key THEN FirstStats(response, latency) ELSE st[k]]

\* The responses returned for a key: how often each (totalTokens, cost)
\* was handed to a caller.
Returned(b, provider, model, response) ==
    LET key   == <<provider, model>>
        entry == [totalTokens |-> response.totalTokens, cost |-> response.cost]
    IN  [k \in DOMAIN b \cup {key} |->
            IF k = key
            THEN (IF key \in DOMAIN b THEN b[key] ELSE EmptyBag) (+) SetToBag({entry})
            ELSE b[k]]

\* The samples seen for a key, oldest first.
Sampled(h, provider, model, latency) ==
    LET key == <<provider, model>>
    IN  [k \in DOMAIN h \cup {key} |->
            IF k = key
            THEN (IF key \in DOMAIN h THEN h[key] ELSE <<>>) \o <<latency>>
            ELSE h[k]]

---------------------------------------------------------------------------
(* Dispatch engine *)

\* An absent provider is the empty string: !provider holds for both.
Request(provider, model, hasCode, hasFiles) ==
    [provider |-> provider, model |-> model, hasCode |-> hasCode, hasFiles |-> hasFiles]

\* A test that takes only the literal 'auto' for a request without backend.
IsAuto_onlyAuto(request) == request.provider = "auto"

\* if (!provider || provider === 'auto')
IsAuto(request) == request.provider = "" \/ request.provider = "auto"

ExplicitModel(p) ==
    IF providerConfigs(p).defined THEN providerConfigs(p).models[1] ELSE "local-model"

\* The requests callers send: auto-routed ones, with and without the word
\* "code" in the prompt, with and without attachments and with and without
\* a model of their own, and ones naming a backend, configured or not.
Requests ==
    {Request("", "", FALSE, FALSE), Request("auto", "gpt-4", TRUE, FALSE),
     Request("auto", "gpt-4", FALSE, TRUE), Request("", "", TRUE, TRUE)}
    \cup {Request(p, ExplicitModel(p), FALSE, FALSE) :
             p \in BuiltIn \cup {Custom, "mistral"}}

\* Date.now() differences in milliseconds: the adapter call as
\* executeRequest measures it, and the whole call as processRequest
\* measures it.  A backend that answers within the millisecond gives 0.
Latencies == {0, 500, 4000}

\* The whole call contains the adapter call: a backend that answers within
\* the millisecond in a call of half a second, and a slow backend.
LatencyPairs == {l \in Latencies \X Latencies : l = <<0, 500>> \/ l = <<4000, 4000>>}

NoDone ==
    [kind |-> "none", error |-> "", errProvider |-> "",
     reqProvider |-> "", reqModel |-> "", routed |-> FALSE,
     usage |-> NoUsage, response |-> NoResponse, sample |-> 0]

Failure(request, routed, error, provider) ==
    [NoDone EXCEPT !.kind = "error", !.error = error,
                   !.errProvider = provider, !.reqProvider = request.provider,
                   !.reqModel = request.model, !.routed = routed]

NoDispatch ==
    [busy |-> FALSE, reqProvider |-> "", reqModel |-> "", routed |-> FALSE,
     provider |-> "", model |-> ""]

\* A dispatch that goes to the switch without looking the backend up.
StartDispatch_unchecked(request, d) ==
    LET provider == IF IsAuto(request) THEN d.selectedProvider ELSE request.provider
        model    == IF IsAuto(request) THEN d.selectedModel ELSE request.model
    IN  IF IsAuto(request) /\ ~d.ok
        THEN [thrown |-> TRUE, dispatch |-> NoDispatch,
              failure |-> Failure(request, TRUE, "TypeError", "")]
        ELSE IF ~Supported(provider)
        THEN [thrown |-> TRUE, dispatch |-> NoDispatch,
              failure |-> Failure(request, IsAuto(request),
                                  "UnsupportedProvider", provider)]
        ELSE [thrown |-> FALSE, failure |-> NoDone,
              dispatch |-> [busy |-> TRUE,
                            reqProvider |-> request.provider,
                            reqModel |-> request.model,
                            routed |-> IsAuto(request),
                            provider |-> provider, model |-> model]]

\* processRequest up to the adapter's network call, given the router's
\* decision d (used when no backend is named): the lookup and the switch
\* of executeRequest.  The result is the suspended dispatch or the error
\* thrown.
StartDispatch(request, d) ==
    LET provider == IF IsAuto(request) THEN d.selectedProvider ELSE request.provider
        model    == IF IsAuto(request) THEN d.selectedModel ELSE request.model
    IN  IF IsAuto(request) /\ ~d.ok
        THEN [thrown |-> TRUE, dispatch |-> NoDispatch,
              failure |-> Failure(request, TRUE, "TypeError", "")]
        ELSE IF provider \notin providers
        THEN [thrown |-> TRUE, dispatch |-> NoDispatch,
              failure |-> Failure(request, IsAuto(request),
                                  "ProviderNotAvailable", provider)]
        ELSE IF ~Supported(provider)
        THEN [thrown |-> TRUE, dispatch |-> NoDispatch,
              failure |-> Failure(request, IsAuto(request),
                                  "UnsupportedProvider", provider)]
        ELSE [thrown |-> FALSE, failure |-> NoDone,
              dispatch |-> [busy |-> TRUE,
                            reqProvider |-> request.provider,
                            reqModel |-> request.model,
                            routed |-> IsAuto(request),
                            provider |-> provider, model |-> model]]

\* executeRequest after the adapter returned, as processRequest hands it on.
Completed(f, reply, lat) ==
    LET usage == AdapterUsage(f.provider, reply)
    IN  [NoDone EXCEPT !.kind = "ok",
                       !.reqProvider = f.reqProvider, !.reqModel = f.reqModel,
                       !.routed = f.routed, !.usage = usage,
                       !.response = BuildResponse(f.provider, f.model, usage, lat[1]),
                       !.sample = lat[2]]

\* The catch blocks of executeRequest and processRequest log and rethrow.
Thrown(f) ==
    Failure([provider |-> f.reqProvider, model |-> f.reqModel],
            f.routed, "BackendError", f.provider)

\* No adapter call in this turn.
NoWire ==
    [sent |-> FALSE, provider |-> "",
     request |-> [prompt |-> "", context |-> [defined |-> FALSE, messages |-> <<>>],
                  maxTokens |-> Undef, temperature |-> Undef, systemPrompt |-> ""],
     call |-> [messages |-> <<>>, system |-> "", max_tokens |-> 0, temperature |-> 0]]

NoAsk ==
    [active |-> FALSE, kind |-> "", user |-> "", channel |-> "",
     dispatch |-> NoDispatch]

\* What an ask command returned, or a message handler said last.
NoSaid == [returned |-> FALSE, kind |-> "", user |-> "", success |-> FALSE, reason |-> ""]

\* What processCommand returned for a comparison: validResults, for each
\* target how its promise settled, and the order in which they settled.
NoCmpResult ==
    [returned |-> FALSE, success |-> FALSE, user |-> "", results |-> <<>>,
     outcome |-> <<>>, order |-> <<>>]

Slots == 1..MaxFlight

FreeSlots == {s \in Slots : ~flight[s].busy}

\* JavaScript runs one event-loop turn to completion: what a turn hands
\* to its caller (done) and logs (decision) is consumed before the next
\* event is taken.
Idle ==
    /\ done = NoDone /\ decision = NoDecision
    /\ ~cmpResult.returned /\ ~said.returned /\ ~wire.sent

\* processRequest is called.
BeginRequest(request) ==
    /\ Idle
    /\ ncalls < MaxCalls
    /\ FreeSlots # {}
    /\ \E d \in {IF IsAuto(request) THEN smartRouting(request, ncalls + 1)
                  ELSE NoDecision} :
         LET start == StartDispatch(request, d)
             s     == CHOOSE x \in FreeSlots : \A y \in FreeSlots : x <= y
         IN  /\ decision' = IF IsAuto(request) THEN d ELSE decision
             /\ done' = start.failure
             /\ flight' = IF start.thrown THEN flight
                          ELSE [flight EXCEPT ![s] = start.dispatch]
    /\ ncalls' = ncalls + 1
    /\ UNCHANGED <<registryVars, stats, hist, served, userVars, cmpVars, convVars, askVars, adapterVars>>

\* A return path that records the response twice.
AdapterReturn_twice(s, reply, lat) ==
    /\ Idle
    /\ flight[s].busy
    /\ LET d == Completed(flight[s], reply, lat)
           once == updateStats(stats, flight[s].provider, flight[s].model,
                               d.response, lat[2])
       IN  /\ done' = d
           /\ stats' = [once EXCEPT ![<<flight[s].provider, flight[s].model>>] =
                           [@ EXCEPT !.totalRequests = @ + 1,
                                     !.totalTokens = @ + d.response.totalTokens,
                                     !.totalCost = NumAdd(@, d.response.cost)]]
           /\ hist' = Sampled(hist, flight[s].provider, flight[s].model, lat[2])
           /\ served' = Returned(served, flight[s].provider, flight[s].model,
                                 d.response)
    /\ flight' = [flight EXCEPT ![s] = NoDispatch]
    /\ UNCHANGED <<registryVars, decision, ncalls, userVars, cmpVars, convVars,
                   askVars, adapterVars>>

\* The backend answers: executeRequest builds the response and
\* processRequest records it.
AdapterReturn(s, reply, lat) ==
    /\ Idle
    /\ flight[s].busy
    /\ LET d == Completed(flight[s], reply, lat)
       IN  /\ done' = d
           /\ stats' = updateStats(stats, flight[s].provider, flight[s].model,
                                   d.response, lat[2])
           /\ hist' = Sampled(hist, flight[s].provider, flight[s].model, lat[2])
           /\ served' = Returned(served, flight[s].provider, flight[s].model,
                                 d.response)
    /\ flight' = [flight EXCEPT ![s] = NoDispatch]
    /\ UNCHANGED <<registryVars, decision, ncalls, userVars, cmpVars, convVars,
                   askVars, adapterVars>>

\* A failure handler that sends the request on to another backend.
AdapterThrow_fallback(s) ==
    /\ Idle
    /\ flight[s].busy
    /\ providers \ {flight[s].provider} # {}
    /\ flight' = [flight EXCEPT ![s].provider =
                     CHOOSE p \in providers : p # flight[s].provider]
    /\ UNCHANGED <<registryVars, stats, hist, served, decision, done, ncalls, userVars, cmpVars, convVars, askVars, adapterVars>>

\* The adapter call fails.
AdapterThrow(s) ==
    /\ Idle
    /\ flight[s].busy
    /\ done' = Thrown(flight[s])
    /\ flight' = [flight EXCEPT ![s] = NoDispatch]
    /\ UNCHANGED <<registryVars, stats, hist, served, decision, ncalls, userVars, cmpVars, convVars, askVars, adapterVars>>

\* The turn ends: the caller has the result.
EndTurn ==
    /\ ~Idle
    /\ done' = NoDone
    /\ decision' = NoDecision
    /\ cmpResult' = NoCmpResult
    /\ said' = NoSaid
    /\ wire' = NoWire
    /\ UNCHANGED <<registryVars, stats, hist, served, flight, ncalls, userVars, cmp,
                   convVars, ask>>

---------------------------------------------------------------------------
(* User manager *)

Users == {"U1", "U2"}

Team == "T1"

DefaultKey == <<"default", "">>

\* `${teamId}:${userId}`
SubscriptionKey(userId, teamId) == <<teamId, userId>>

\* The one usage object initializeDefaultSubscriptions allocates.
DefaultUsage == 0

MonthlyRequests == 100

\* The default subscription; usage is a reference into usageObj.
defaultSubscription ==
    [userId |-> "", teamId |-> "", status |-> "active",
     monthlyRequests |-> MonthlyRequests, usage |-> DefaultUsage]

\* getUserSubscription: a new user's subscription is a shallow copy of the
\* default one ({...default, userId, teamId}), so it refers to the default
\* subscription's usage object.
getUserSubscription(subs, userId, teamId) ==
    LET key == SubscriptionKey(userId, teamId)
    IN  IF key \in DOMAIN subs THEN subs
        ELSE [k \in DOMAIN subs \cup {key} |->
                 IF k = key
                 THEN [subs[DefaultKey] EXCEPT !.userId = userId, !.teamId = teamId]
                 ELSE subs[k]]

\* updateUsage: adds to the usage object of the user's subscription, if any.
updateUsage(subs, heap, userId, teamId, requests, tokens, cost) ==
    LET key == SubscriptionKey(userId, teamId)
    IN  IF key \in DOMAIN subs
        THEN [heap EXCEPT ![subs[key].usage] =
                 [requestsThisMonth |-> @.requestsThisMonth + requests,
                  tokensThisMonth |-> @.tokensThisMonth + tokens,
                  costThisMonth |-> NumAdd(@.costThisMonth, cost)]]
        ELSE heap

InitUsers ==
    /\ subscriptions = [k \in {DefaultKey} |-> defaultSubscription]
    /\ usageObj = [r \in {DefaultUsage} |->
                      [requestsThisMonth |-> 0, tokensThisMonth |-> 0,
                       costThisMonth |-> 0]]

---------------------------------------------------------------------------
(* Comparison mode *)

\* const providers = [...]; const models = [...]
CompareProviders == <<"openai", "anthropic", "groq">>

CompareModels == <<"gpt-4", "claude-3-5-sonnet-20241022", "llama-3.1-70b-versatile">>

Targets == 1..Len(CompareProviders)

NoTarget == [state |-> "none", dispatch |-> NoDispatch, response |-> NoResponse]

\* order: the targets whose promise has settled, in the order of settling.
NoCompare ==
    [active |-> FALSE, user |-> "", targets |-> [i \in Targets |-> NoTarget],
     order |-> <<>>]

\* The closure of providers.map up to its first await: null when the
\* backend is not available, else processRequest up to the adapter call.
LaunchTarget(i) ==
    IF ~isProviderAvailable(CompareProviders[i])
    THEN [NoTarget EXCEPT !.state = "skipped"]
    ELSE LET start == StartDispatch(
                          Request(CompareProviders[i], CompareModels[i], FALSE, FALSE),
                          NoDecision)
         IN  IF start.thrown THEN [NoTarget EXCEPT !.state = "failed"]
             ELSE [NoTarget EXCEPT !.state = "pending", !.dispatch = start.dispatch]

Launched(targets) == {i \in Targets : targets[i].state = "pending"}

\* A filter that keeps the null entries.
validResults_unfiltered(targets) == [i \in Targets |-> targets[i].response]

\* results.filter(r => r !== null): the responses of the fulfilled targets,
\* in target order.
validResults(targets) ==
    LET RECURSIVE Keep(_)
        Keep(i) == IF i = 0 THEN <<>>
                   ELSE Keep(i - 1) \o (IF targets[i].state = "ok"
                                        THEN <<targets[i].response>> ELSE <<>>)
    IN  Keep(Len(CompareProviders))

\* A verdict that fails the batch as soon as one target is missing.
CompareSucceeds_all(valid) == Len(valid) = Len(CompareProviders)

\* if (validResults.length === 0) return { ..., success: false }
CompareSucceeds(valid) == Len(valid) # 0

\* validResults.reduce((sum, r) => sum + ..., 0)
RECURSIVE SumOver(_, _)
SumOver(valid, field) ==
    IF valid = <<>> THEN 0
    ELSE NumAdd(Head(valid)[field], SumOver(Tail(valid), field))

Rejected(user) == [NoCmpResult EXCEPT !.returned = TRUE, !.user = user]

\* processCommand with a compare command, up to Promise.all: the
\* subscription and quota checks, the empty-prompt check, and the launch
\* of one dispatch per available target.
CompareCommand(user, emptyPrompt) ==
    /\ Idle
    /\ ~cmp.active
    /\ \E subs \in {getUserSubscription(subscriptions, user, Team)} :
         LET sub     == subs[SubscriptionKey(user, Team)]
             targets == [i \in Targets |-> LaunchTarget(i)]
         IN  /\ subscriptions' = subs
             /\ IF \/ sub.status # "active"
                   \/ usageObj[sub.usage].requestsThisMonth >= sub.monthlyRequests
                   \/ emptyPrompt
                THEN /\ cmpResult' = Rejected(user)
                     /\ UNCHANGED <<cmp, ncalls>>
                ELSE /\ ncalls + Cardinality(Launched(targets)) <= MaxCalls
                     /\ cmp' = [active |-> TRUE, user |-> user, targets |-> targets,
                                order |-> <<>>]
                     /\ ncalls' = ncalls + Cardinality(Launched(targets))
                     /\ UNCHANGED cmpResult
    /\ UNCHANGED <<registryVars, stats, hist, served, flight, decision, done, usageObj, convVars, askVars, adapterVars>>

\* A target's backend answers: processRequest records the call and the
\* closure keeps the response.
CompareTargetReturn(i, reply, lat) ==
    /\ Idle
    /\ cmp.active
    /\ cmp.targets[i].state = "pending"
    /\ LET f == cmp.targets[i].dispatch
           d == Completed(f, reply, lat)
       IN  /\ stats' = updateStats(stats, f.provider, f.model, d.response, lat[2])
           /\ hist' = Sampled(hist, f.provider, f.model, lat[2])
           /\ served' = Returned(served, f.provider, f.model, d.response)
           /\ cmp' = [cmp EXCEPT !.targets[i] =
                                     [state |-> "ok", dispatch |-> NoDispatch,
                                      response |-> d.response],
                                  !.order = Append(@, i)]
    /\ UNCHANGED <<registryVars, flight, decision, done, ncalls, userVars,
                   cmpResult, convVars, askVars, adapterVars>>

\* A target's adapter call fails: the closure's catch logs and yields null.
CompareTargetThrow(i) ==
    /\ Idle
    /\ cmp.active
    /\ cmp.targets[i].state = "pending"
    /\ cmp' = [cmp EXCEPT !.targets[i] = [NoTarget EXCEPT !.state = "failed"],
                           !.order = Append(@, i)]
    /\ UNCHANGED <<registryVars, stats, hist, served, flight, decision, done, ncalls,
                   userVars, cmpResult, convVars, askVars, adapterVars>>

\* A join that goes on as soon as one promise has settled.
CompareJoin_early ==
    /\ Idle
    /\ cmp.active
    /\ \/ cmp.order # <<>>
       \/ Launched(cmp.targets) = {}
    /\ LET valid == validResults(cmp.targets)
       IN  /\ cmpResult' =
                 [returned |-> TRUE, success |-> CompareSucceeds(valid),
                  user |-> cmp.user, results |-> valid,
                  outcome |-> [i \in Targets |-> cmp.targets[i].state],
                  order |-> cmp.order]
           /\ usageObj' =
                 IF CompareSucceeds(valid)
                 THEN updateUsage(subscriptions, usageObj, cmp.user, Team,
                                  Len(valid), SumOver(valid, "totalTokens"),
                                  SumOver(valid, "cost"))
                 ELSE usageObj
    /\ cmp' = NoCompare
    /\ UNCHANGED <<registryVars, stats, hist, served, flight, decision, done, ncalls,
                   subscriptions, convVars, askVars, adapterVars>>

\* Promise.all has settled: the rest of processCompareCommand.
CompareJoin ==
    /\ Idle
    /\ cmp.active
    /\ Launched(cmp.targets) = {}
    /\ LET valid == validResults(cmp.targets)
       IN  /\ cmpResult' =
                 [returned |-> TRUE, success |-> CompareSucceeds(valid),
                  user |-> cmp.user, results |-> valid,
                  outcome |-> [i \in Targets |-> cmp.targets[i].state],
                  order |-> cmp.order]
           /\ usageObj' =
                 IF CompareSucceeds(valid)
                 THEN updateUsage(subscriptions, usageObj, cmp.user, Team,
                                  Len(valid), SumOver(valid, "totalTokens"),
                                  SumOver(valid, "cost"))
                 ELSE usageObj
    /\ cmp' = NoCompare
    /\ UNCHANGED <<registryVars, stats, hist, served, flight, decision, done, ncalls,
                   subscriptions, convVars, askVars, adapterVars>>

InitCompare ==
    /\ cmp = NoCompare
    /\ cmpResult = NoCmpResult

---------------------------------------------------------------------------
(* Conversation manager *)

Channels == {"C1"}

\* `conversation:${userId}:${channelId}`
ConversationKey(userId, channelId) == <<userId, channelId>>

MaxMessages == 20

\* A Date, and the ISO string JSON.stringify writes for it.
Date(ms) == <<"Date", ms>>

ToJSON(date) == <<"string", date[2]>>

\* new Date(msg.timestamp)
ParseDate(string) == <<"Date", string[2]>>

\* The n-th message a conversation receives: the user's prompt, then the
\* assistant's answer with its token count, and so on.  The content is
\* abstracted to the number n.
Message(n) ==
    [role |-> IF n % 2 = 1 THEN "user" ELSE "assistant",
     content |-> n,
     timestamp |-> Date(n),
     tokens |-> IF n % 2 = 1 THEN Undef ELSE 1000]

\* JSON.stringify(context) and JSON.parse(data) on the fields modelled.
Stringify(context) ==
    [messages |-> [i \in 1..Len(context.messages) |->
                      [context.messages[i] EXCEPT !.timestamp = ToJSON(@)]],
     totalTokens |-> context.totalTokens]

\* getContext on a stored value: the messages' timestamps become Dates.
ParseContext(data) ==
    [messages |-> [i \in 1..Len(data.messages) |->
                      [data.messages[i] EXCEPT !.timestamp = ParseDate(@)]],
     totalTokens |-> data.totalTokens]

NewContext == [messages |-> <<>>, totalTokens |-> 0]

\* getContext: undefined (here: found = FALSE) when the key is absent.
getContext(store, key) ==
    IF key \in DOMAIN store
    THEN [found |-> TRUE, context |-> ParseContext(store[key])]
    ELSE [found |-> FALSE, context |-> NewContext]

\* A trim that keeps the oldest entries: slice(0, 20).
Trim_oldest(messages) ==
    IF Len(messages) > MaxMessages THEN SubSeq(messages, 1, MaxMessages)
    ELSE messages

\* if (context.messages.length > 20) context.messages = context.messages.slice(-20)
Trim(messages) ==
    IF Len(messages) > MaxMessages
    THEN SubSeq(messages, Len(messages) - MaxMessages + 1, Len(messages))
    ELSE messages

\* The context addMessage writes back.
Appended(context, message) ==
    [messages |-> Trim(Append(context.messages, message)),
     totalTokens |-> context.totalTokens + OrZero(message.tokens)]

\* addMessage with the store answering both the read and the write, and
\* no other call for the key in between.
AddMessage(userId, channelId) ==
    LET key  == ConversationKey(userId, channelId)
        seen == IF key \in DOMAIN appended THEN appended[key] ELSE <<>>
        msg  == Message(Len(seen) + 1)
        got  == getContext(redis, key)
    IN  /\ Len(seen) < MaxAppends
        /\ redis' = [k \in DOMAIN redis \cup {key} |->
                        IF k = key THEN Stringify(Appended(got.context, msg))
                        ELSE redis[k]]
        /\ appended' = [k \in DOMAIN appended \cup {key} |->
                           IF k = key THEN Append(seen, msg) ELSE appended[k]]
        /\ UNCHANGED <<engineVars, userVars, cmpVars, adding, askVars, adapterVars>>

\* An addMessage call between the store's answer to its read and the
\* store's handling of its write: the context it is about to write.
\* stored tells whether the key held a context when the read was made.
NoAdding ==
    [busy |-> FALSE, key |-> <<"", "">>, readFailed |-> FALSE, stored |-> FALSE,
     context |-> NewContext]

AddSlots == 1..MaxOverlap

\* addMessage up to `await this.redis.setex`: getContext (undefined when
\* the key is absent or the read throws), the new context in that case,
\* push, the token sum and the trim.
ReadContext(userId, channelId, readOk) ==
    LET key  == ConversationKey(userId, channelId)
        seen == IF key \in DOMAIN appended THEN appended[key] ELSE <<>>
        msg  == Message(Len(seen) + 1)
        got  == IF readOk THEN getContext(redis, key)
                ELSE [found |-> FALSE, context |-> NewContext]
        free == {s \in AddSlots : ~adding[s].busy}
    IN  /\ Len(seen) < MaxStoreCalls
        /\ free # {}
        /\ adding' = [adding EXCEPT ![CHOOSE s \in free : \A t \in free : s <= t] =
                         [busy |-> TRUE, key |-> key, readFailed |-> ~readOk,
                          stored |-> key \in DOMAIN redis,
                          context |-> Appended(IF got.found THEN got.context
                                               ELSE NewContext, msg)]]
        /\ appended' = [k \in DOMAIN appended \cup {key} |->
                           IF k = key THEN Append(seen, msg) ELSE appended[k]]
        /\ UNCHANGED <<engineVars, userVars, cmpVars, redis, askVars, adapterVars>>

\* The store handles the call's setex: the context the call built
\* replaces what the key holds.
WriteContext(s) ==
    /\ adding[s].busy
    /\ redis' = [k \in DOMAIN redis \cup {adding[s].key} |->
                    IF k = adding[s].key THEN Stringify(adding[s].context)
                    ELSE redis[k]]
    /\ adding' = [adding EXCEPT ![s] = NoAdding]
    /\ UNCHANGED <<engineVars, userVars, cmpVars, appended, askVars, adapterVars>>

---------------------------------------------------------------------------
(* Ask commands and channel messages *)

\* processCommand with an ask command, and handleMessage.
AskKinds == {"ask", "message"}

\* A limit that lets the request at the limit through.
LimitReached_above(sub) ==
    usageObj[sub.usage].requestsThisMonth > sub.monthlyRequests

\* subscription.usage.requestsThisMonth >= subscription.limits.monthlyRequests
LimitReached(sub) ==
    usageObj[sub.usage].requestsThisMonth >= sub.monthlyRequests

Answer(kind, user, success, reason) ==
    [returned |-> TRUE, kind |-> kind, user |-> user, success |-> success,
     reason |-> reason]

\* The request both handlers build from a plain question: no backend and
\* no model named.
AskRequest == Request("", "", FALSE, FALSE)

\* An ask command that names its backend (command.provider).
NamedRequest(provider) == Request(provider, ExplicitModel(provider), FALSE, FALSE)

\* command.provider: not set, or a backend the user names that no
\* environment configures.
AskBackends == {"", "mistral"}

\* The channels the commands of the frame specification come from.
AskChannels == {"C1", "C2"}

\* The backends answer these handlers with their counted usage, after half
\* a second.
AskReplies(provider) ==
    IF \E r \in BackendReplies(provider) : r.present
    THEN {r \in BackendReplies(provider) : r.present}
    ELSE BackendReplies(provider)

AskLatency == <<500, 500>>

\* The user whose commands and messages a behaviour follows up to the
\* monthly limit.
Askers == {"U1"}

\* An append that starts the context afresh with the message.
addMessage_replacing(store, key, message) ==
    [k \in DOMAIN store \cup {key} |->
        IF k = key THEN Stringify(Appended(NewContext, message))
        ELSE store[k]]

\* addMessage on the store: read, append, trim, write back.
addMessage(store, key, message) ==
    [k \in DOMAIN store \cup {key} |->
        IF k = key THEN Stringify(Appended(getContext(store, key).context, message))
        ELSE store[k]]

\* The handler up to the adapter's network call: the hello for an empty
\* message, the subscription and limit checks, the empty-prompt check of
\* processAskCommand, getContext and processRequest up to its await.  An
\* error thrown on the way is caught and answered.
AskCommand(kind, user, channel, emptyPrompt, provider) ==
    /\ Idle
    /\ ~ask[kind].active
    /\ provider # "" => kind = "ask"
    /\ IF kind = "message" /\ emptyPrompt
       THEN /\ said' = Answer(kind, user, FALSE, "empty")
            /\ UNCHANGED <<subscriptions, ask, decision, done>>
       ELSE \E subs \in {getUserSubscription(subscriptions, user, Team)} :
              \E d \in {IF provider = "" THEN smartRouting(AskRequest, ncalls + 1)
                        ELSE NoDecision} :
                LET sub     == subs[SubscriptionKey(user, Team)]
                    request == IF provider = "" THEN AskRequest
                               ELSE NamedRequest(provider)
                    start   == StartDispatch(request, d)
                IN  /\ subscriptions' = subs
                    /\ IF sub.status # "active"
                       THEN /\ said' = Answer(kind, user, FALSE, "inactive")
                            /\ UNCHANGED <<ask, decision, done>>
                       ELSE IF LimitReached(sub)
                       THEN /\ said' = Answer(kind, user, FALSE, "limit")
                            /\ UNCHANGED <<ask, decision, done>>
                       ELSE IF emptyPrompt
                       THEN /\ said' = Answer(kind, user, FALSE, "empty")
                            /\ UNCHANGED <<ask, decision, done>>
                       ELSE /\ decision' = d
                            /\ done' = start.failure
                            /\ IF start.thrown
                               THEN /\ said' = Answer(kind, user, FALSE, "error")
                                    /\ ask' = ask
                               ELSE /\ said' = said
                                    /\ ask' = [ask EXCEPT ![kind] =
                                                  [active |-> TRUE, kind |-> kind,
                                                   user |-> user, channel |-> channel,
                                                   dispatch |-> start.dispatch]]
    /\ UNCHANGED <<registryVars, stats, hist, served, flight, ncalls, usageObj,
                   cmpVars, convVars, adapterVars>>

\* The backend answers: processRequest records the call, the handler
\* appends the question and the answer to the conversation, adds to the
\* user's usage and answers.
AskReturn(kind, reply, lat) ==
    /\ Idle
    /\ ask[kind].active
    /\ LET f        == ask[kind].dispatch
           d        == Completed(f, reply, lat)
           key      == ConversationKey(ask[kind].user, ask[kind].channel)
           seen     == IF key \in DOMAIN appended THEN appended[key] ELSE <<>>
           question == [Message(Len(seen) + 1) EXCEPT !.role = "user",
                                                      !.tokens = Undef]
           answer   == [Message(Len(seen) + 2) EXCEPT !.role = "assistant",
                                                      !.tokens = d.response.totalTokens]
       IN  /\ done' = d
           /\ stats' = updateStats(stats, f.provider, f.model, d.response, lat[2])
           /\ hist' = Sampled(hist, f.provider, f.model, lat[2])
           /\ served' = Returned(served, f.provider, f.model, d.response)
           /\ redis' = addMessage(addMessage(redis, key, question), key, answer)
           /\ appended' = [k \in DOMAIN appended \cup {key} |->
                              IF k = key THEN seen \o <<question, answer>>
                              ELSE appended[k]]
           /\ usageObj' = updateUsage(subscriptions, usageObj, ask[kind].user, Team,
                                      1, d.response.totalTokens, d.response.cost)
           /\ said' = Answer(kind, ask[kind].user, TRUE, "")
    /\ ask' = [ask EXCEPT ![kind] = NoAsk]
    /\ UNCHANGED <<registryVars, flight, decision, ncalls, subscriptions, cmpVars,
                   adding, adapterVars>>

\* A catch that accounts the failed request to the user.
AskThrow_accounted(kind) ==
    /\ Idle
    /\ ask[kind].active
    /\ done' = Thrown(ask[kind].dispatch)
    /\ said' = Answer(kind, ask[kind].user, FALSE, "error")
    /\ ask' = [ask EXCEPT ![kind] = NoAsk]
    /\ usageObj' = updateUsage(subscriptions, usageObj, ask[kind].user, Team, 1, 0, 0)
    /\ UNCHANGED <<registryVars, stats, hist, served, flight, decision, ncalls,
                   subscriptions, cmpVars, convVars, adapterVars>>

\* The adapter call fails: the handler's catch answers with an apology.
AskThrow(kind) ==
    /\ Idle
    /\ ask[kind].active
    /\ done' = Thrown(ask[kind].dispatch)
    /\ said' = Answer(kind, ask[kind].user, FALSE, "error")
    /\ ask' = [ask EXCEPT ![kind] = NoAsk]
    /\ UNCHANGED <<registryVars, stats, hist, served, flight, decision, ncalls,
                   userVars, cmpVars, convVars, adapterVars>>

---------------------------------------------------------------------------
(* Adapter calls *)

Roles == {"user", "assistant", "system"}

\* The stored messages of a context with the given roles; the content is
\* abstracted to the position.
ContextMessages(roles) ==
    [i \in 1..Len(roles) |->
        [role |-> roles[i], content |-> i, timestamp |-> Date(i), tokens |-> Undef]]

\* request.context: undefined, or a context with up to MaxContext messages.
Contexts ==
    {[defined |-> FALSE, messages |-> <<>>]}
    \cup {[defined |-> TRUE, messages |-> ContextMessages(roles)] :
             roles \in UNION {[1..n -> Roles] : n \in 0..MaxContext}}

\* options.maxTokens: absent, 0 or a number.
MaxTokensOptions == {Undef, 0, 4000}

\* options.temperature in tenths: absent, 0 or 0.2.
TemperatureOptions == {Undef, 0, 2}

\* options.systemPrompt; the empty string stands for an absent one.
SystemPrompts == {"", "You are a helpful AI assistant."}

Prompt == "prompt"

AdapterRequests ==
    [prompt : {Prompt}, context : Contexts, maxTokens : MaxTokensOptions,
     temperature : TemperatureOptions, systemPrompt : SystemPrompts]

DefaultMaxTokens == 1000

\* 0.7, in tenths
DefaultTemperature == 7

\* x || d
OrDefault(x, d) == IF x = Undef \/ x = NaN \/ x = 0 THEN d ELSE x

\* msg => ({ role: msg.role, content: msg.content })
RoleAndContent(messages) ==
    [i \in 1..Len(messages) |->
        [role |-> messages[i].role, content |-> messages[i].content]]

\* messages.filter(msg => msg.role !== 'system')
RECURSIVE WithoutSystem(_)
WithoutSystem(messages) ==
    IF messages = <<>> THEN <<>>
    ELSE (IF Head(messages).role # "system" THEN <<Head(messages)>> ELSE <<>>)
         \o WithoutSystem(Tail(messages))

buildMessages(request) ==
    (IF request.systemPrompt # ""
     THEN <<[role |-> "system", content |-> request.systemPrompt]>> ELSE <<>>)
    \o (IF request.context.defined
        THEN RoleAndContent(request.context.messages) ELSE <<>>)
    \o <<[role |-> "user", content |-> request.prompt]>>

\* A translation that leaves the system-role messages of the context in.
buildAnthropicMessages_unfiltered(request) ==
    (IF request.context.defined
     THEN RoleAndContent(request.context.messages) ELSE <<>>)
    \o <<[role |-> "user", content |-> request.prompt]>>

buildAnthropicMessages(request) ==
    (IF request.context.defined
     THEN RoleAndContent(WithoutSystem(request.context.messages)) ELSE <<>>)
    \o <<[role |-> "user", content |-> request.prompt]>>

\* What an adapter hands to its client: the message list, the system
\* parameter where the backend takes one, and the two sampling options.
ChatCall(messages, system, request) ==
    [messages |-> messages, system |-> system,
     max_tokens |-> OrDefault(request.maxTokens, DefaultMaxTokens),
     temperature |-> OrDefault(request.temperature, DefaultTemperature)]

\* The switch of executeRequest, on the call the adapter makes.
AdapterCall(provider, request) ==
    CASE provider = "anthropic" ->
           ChatCall(buildAnthropicMessages(request), request.systemPrompt, request)
      [] OTHER -> ChatCall(buildMessages(request), "", request)

\* executeRequest hands a request to the adapter of an available backend.
SendToBackend(provider, request) ==
    /\ Idle
    /\ isProviderAvailable(provider)
    /\ Supported(provider)
    /\ wire' = [sent |-> TRUE, provider |-> provider, request |-> request,
                call |-> AdapterCall(provider, request)]
    /\ UNCHANGED <<engineVars, userVars, cmpVars, convVars, askVars>>

---------------------------------------------------------------------------
(* Specifications *)

InitEngine ==
    /\ providers \in Environments
    /\ constructed = TRUE
    /\ customEndpoints = IF Custom \in providers THEN LocalEndpoint ELSE <<>>
    /\ customBackends = initializeCustomEndpoints(customEndpoints)
    /\ stats = NoFunction
    /\ hist = NoFunction
    /\ served = NoFunction
    /\ flight = [s \in Slots |-> NoDispatch]
    /\ decision = NoDecision
    /\ done = NoDone
    /\ ncalls = 0

InitConv ==
    /\ redis = NoFunction
    /\ appended = NoFunction
    /\ adding = [s \in AddSlots |-> NoAdding]

InitAsk ==
    /\ ask = [kind \in AskKinds |-> NoAsk]
    /\ said = NoSaid

InitAdapter == wire = NoWire

Init == InitEngine /\ InitUsers /\ InitCompare /\ InitConv /\ InitAsk /\ InitAdapter

\* Direct callers of the dispatch engine.
Next ==
    \/ \E request \in Requests : BeginRequest(request)
    \/ \E s \in Slots : \E reply \in BackendReplies(flight[s].provider) :
          \E lat \in LatencyPairs : AdapterReturn(s, reply, lat)
    \/ \E s \in Slots : AdapterThrow(s)
    \/ EndTurn

Spec == Init /\ [][Next]_vars

\* Comparison commands.
NextCompare ==
    \/ \E user \in Users : \E emptyPrompt \in BOOLEAN : CompareCommand(user, emptyPrompt)
    \/ \E i \in Targets : \E reply \in BackendReplies(CompareProviders[i]) :
          \E lat \in LatencyPairs : CompareTargetReturn(i, reply, lat)
    \/ \E i \in Targets : CompareTargetThrow(i)
    \/ CompareJoin
    \/ EndTurn

SpecCompare == Init /\ [][NextCompare]_vars

\* Every launched dispatch settles, and the continuations the runtime has
\* queued are run.
CompareFairness ==
    /\ \A i \in Targets :
          WF_vars(\/ \E reply \in BackendReplies(CompareProviders[i]) :
                       \E lat \in LatencyPairs : CompareTargetReturn(i, reply, lat)
                  \/ CompareTargetThrow(i))
    /\ WF_vars(CompareJoin)
    /\ WF_vars(EndTurn)

SpecCompareFair == SpecCompare /\ CompareFairness

\* Sequential appends to the conversation store; keys do not expire
\* within the behaviour.
NextConv == \E userId \in Users : \E channelId \in Channels : AddMessage(userId, channelId)

SpecConv == Init /\ [][NextConv]_vars

\* addMessage calls for one conversation that may overlap in time, with a
\* store whose reads may fail.
NextStore ==
    \/ \E userId \in Askers : \E channelId \in Channels : \E readOk \in BOOLEAN :
          ReadContext(userId, channelId, readOk)
    \/ \E s \in AddSlots : WriteContext(s)

SpecStore == Init /\ [][NextStore]_vars

\* Ask commands and channel messages, one at a time.
NextAsk ==
    \/ /\ \A other \in AskKinds : ~ask[other].active
       /\ \E kind \in AskKinds : \E user \in Askers : \E channel \in Channels :
             \E emptyPrompt \in BOOLEAN : \E provider \in AskBackends :
                AskCommand(kind, user, channel, emptyPrompt, provider)
    \/ \E kind \in AskKinds : \E reply \in AskReplies(ask[kind].dispatch.provider) :
          AskReturn(kind, reply, AskLatency)
    \/ \E kind \in AskKinds : AskThrow(kind)
    \/ EndTurn

SpecAsk == Init /\ [][NextAsk]_vars

\* Commands and messages from two channels, one at a time, up to
\* MaxAnswered answers.
NextFrame ==
    \/ /\ \A other \in AskKinds : ~ask[other].active
       /\ usageObj[DefaultUsage].requestsThisMonth < MaxAnswered
       /\ \E kind \in AskKinds : \E user \in Askers : \E channel \in AskChannels :
             \E emptyPrompt \in BOOLEAN : \E provider \in AskBackends :
                AskCommand(kind, user, channel, emptyPrompt, provider)
    \/ \E kind \in AskKinds : \E reply \in AskReplies(ask[kind].dispatch.provider) :
          AskReturn(kind, reply, AskLatency)
    \/ \E kind \in AskKinds : AskThrow(kind)
    \/ EndTurn

SpecFrame == Init /\ [][NextFrame]_vars

\* Ask commands, channel messages and comparison commands of one user,
\* one command at a time, up to MaxAnswered accounted requests.
NextCommands ==
    \/ /\ \A other \in AskKinds : ~ask[other].active
       /\ ~cmp.active
       /\ usageObj[DefaultUsage].requestsThisMonth < MaxAnswered
       /\ \/ \E kind \in AskKinds : \E user \in Askers : \E channel \in Channels :
                \E emptyPrompt \in BOOLEAN : \E provider \in AskBackends :
                   AskCommand(kind, user, channel, emptyPrompt, provider)
          \/ \E user \in Askers : \E emptyPrompt \in BOOLEAN :
                CompareCommand(user, emptyPrompt)
    \/ \E kind \in AskKinds : \E reply \in AskReplies(ask[kind].dispatch.provider) :
          AskReturn(kind, reply, AskLatency)
    \/ \E kind \in AskKinds : AskThrow(kind)
    \/ \E i \in Targets : \E reply \in AskReplies(CompareProviders[i]) :
          CompareTargetReturn(i, reply, AskLatency)
    \/ \E i \in Targets : CompareTargetThrow(i)
    \/ CompareJoin
    \/ EndTurn

SpecCommands == Init /\ [][NextCommands]_vars

\* A command and a channel message of the same user may overlap in time:
\* each handler is suspended at its await while the other one runs.  None
\* of them names a backend.
NextQuota ==
    \/ \E kind \in AskKinds : \E user \in Askers : \E channel \in Channels :
          \E emptyPrompt \in BOOLEAN :
             AskCommand(kind, user, channel, emptyPrompt, "")
    \/ \E kind \in AskKinds : \E reply \in AskReplies(ask[kind].dispatch.provider) :
          AskReturn(kind, reply, AskLatency)
    \/ \E kind \in AskKinds : AskThrow(kind)
    \/ EndTurn

SpecQuota == Init /\ [][NextQuota]_vars

\* Requests handed to the adapters.
NextAdapter ==
    \/ /\ Idle
       /\ \E provider \in providers : \E request \in AdapterRequests :
             SendToBackend(provider, request)
    \/ EndTurn

SpecAdapter == Init /\ [][NextAdapter]_vars

\* The process before the manager is constructed, for every value of the
\* custom endpoint list.
InitEndpoints ==
    /\ constructed = FALSE
    /\ customEndpoints \in EndpointLists
    /\ customBackends = NoFunction
    /\ providers = {}
    /\ stats = NoFunction
    /\ hist = NoFunction
    /\ served = NoFunction
    /\ flight = [s \in Slots |-> NoDispatch]
    /\ decision = NoDecision
    /\ done = NoDone
    /\ ncalls = 0
    /\ InitUsers /\ InitCompare /\ InitConv /\ InitAsk /\ InitAdapter

NextEndpoints == Construct

SpecEndpoints == InitEndpoints /\ [][NextEndpoints]_vars

---------------------------------------------------------------------------
(* Properties of the dispatch engine *)

Price(p) == providerConfigs(p).inputTokens + providerConfigs(p).outputTokens

Min(a, b) == IF a < b THEN a ELSE b

Routed == decision.call # 0

ModelsOf(p) == {providerConfigs(p).models[i] : i \in 1..Len(providerConfigs(p).models)}

\* C1: when at least one available backend has a profile with a non-empty
\* model list, routing a request that names no backend returns a decision,
\* its provider is in the providers map and its model is in that provider's
\* model list.
C1_RoutedPairIsAvailable ==
    (Routed /\ \E p \in providers : providerConfigs(p).defined /\ ModelsOf(p) # {})
    => /\ decision.ok
       /\ decision.selectedProvider \in providers
       /\ decision.selectedModel \in ModelsOf(decision.selectedProvider)

\* A routing in an environment where one of the configured backends has no
\* profile and a backend with a profile was chosen.
C1_Witness ==
    /\ Routed /\ decision.ok
    /\ Custom \in providers
    /\ decision.selectedProvider \in providers

\* C2: with zero backends available, auto-routing fails with an explicit
\* NoBackendsAvailable routing error.
C2_NoBackendsAvailableError ==
    (Routed /\ providers = {})
    => done.kind = "error" /\ done.error = "NoBackendsAvailable"

\* C3: the cost of a returned response is promptTokens/1000 * inputPrice +
\* completionTokens/1000 * outputPrice, on the response's own counters and
\* the resolved backend's prices, and 0 when the backend reports no usage
\* or has no pricing profile.
C3_CostFormula ==
    done.kind = "ok"
    => LET r   == done.response
           cfg == providerConfigs(r.provider)
       IN  /\ cfg.defined =>
                 r.cost = r.promptTokens * cfg.inputTokens
                          + r.completionTokens * cfg.outputTokens
           /\ (~done.usage.present \/ ~cfg.defined) => r.cost = 0

\* A response with a non-zero cost, and one of a backend without prices
\* that reported tokens.
C3_Witness ==
    /\ done.kind = "ok"
    /\ \/ done.response.cost > 0
       \/ done.response.provider = Custom /\ done.response.promptTokens > 0

\* L1 + L2 + 2*L3 + 4*L4 + ...: the numerator of the two-point running
\* rule over 2^(n-1).
RECURSIVE WeightedSum(_)
WeightedSum(samples) ==
    IF Len(samples) = 1 THEN samples[1]
    ELSE WeightedSum(SubSeq(samples, 1, Len(samples) - 1))
         + 2 ^ (Len(samples) - 2) * samples[Len(samples)]

Total(samples) ==
    LET RECURSIVE Sum(_)
        Sum(n) == IF n = 0 THEN 0 ELSE Sum(n - 1) + samples[n]
    IN  Sum(Len(samples))

\* C4: per (backend, model) key the latency estimate is L1 after the first
\* recorded call and (previous + L) / 2 after each later one: (L1+L2)/2
\* after two calls, ((L1+L2)/2 + L3)/2 after three.
C4_TwoPointRunningRule ==
    /\ DOMAIN hist = DOMAIN stats
    /\ \A k \in DOMAIN stats :
         LET h == hist[k]
             n == Len(h)
         IN  /\ n = stats[k].totalRequests
             /\ stats[k].averageLatency = Rat(WeightedSum(h), 2 ^ (n - 1))
             /\ n = 1 => stats[k].averageLatency = <<h[1], 1>>
             /\ n = 2 => stats[k].averageLatency = Rat(h[1] + h[2], 2)
             /\ n = 3 => stats[k].averageLatency = Rat(h[1] + h[2] + 2 * h[3], 4)

\* A key with three samples whose estimate is not their mean.
C4_Witness ==
    \E k \in DOMAIN stats :
        /\ Len(hist[k]) = 3
        /\ stats[k].averageLatency # Rat(Total(hist[k]), 3)

\* C8: every returned response has totalTokens = promptTokens +
\* completionTokens.
C8_TotalIsSum ==
    done.kind = "ok"
    => done.response.totalTokens
       = done.response.promptTokens + done.response.completionTokens

\* C9 as claimed: of two backends with the same capability and availability
\* factors, the pairs of the one with the lower combined price score at
\* least as high.
C9_LowerPriceScoresAtLeastAsHigh ==
    \A i, j \in 1..Len(decision.ranked) :
        LET a == decision.ranked[i]
            b == decision.ranked[j]
        IN  (/\ a.provider # b.provider
             /\ a.capability = b.capability
             /\ a.availability = b.availability
             /\ Price(a.provider) <= Price(b.provider))
            => RatLeq(b.score, a.score)

\* C9 amended: of two backends with the same performance, capability and
\* availability factors, the pairs of the one with the lower combined
\* price score at least as high.
C9_LowerPriceScoresAtLeastAsHighAtEqualPerformance ==
    \A i, j \in 1..Len(decision.ranked) :
        LET a == decision.ranked[i]
            b == decision.ranked[j]
        IN  (/\ a.provider # b.provider
             /\ a.performance = b.performance
             /\ a.capability = b.capability
             /\ a.availability = b.availability
             /\ Price(a.provider) <= Price(b.provider))
            => RatLeq(b.score, a.score)

\* A ranking with two backends of different prices whose pairs have
\* recorded statistics and the same factors otherwise.
C9_Witness ==
    \E i, j \in 1..Len(decision.ranked) :
        LET a == decision.ranked[i]
            b == decision.ranked[j]
        IN  /\ a.provider # b.provider
            /\ <<a.provider, a.model>> \in DOMAIN stats
            /\ <<b.provider, b.model>> \in DOMAIN stats
            /\ a.performance = b.performance
            /\ a.capability = b.capability
            /\ a.availability = b.availability
            /\ Price(a.provider) < Price(b.provider)
            /\ RatLess(b.score, a.score)

NoStatsFor(p) == \A k \in DOMAIN stats : k[1] # p

\* C10: with backend A at $0/$0 (ollama) and backend B at $0.03/$0.06
\* (openai) both available, no statistics for either and equal capability
\* factors, every pair of A scores strictly higher than every pair of B
\* (cost factor 1 against 0.55) and auto-routing selects a pair of A.
C10_FreeBackendSelected ==
    (/\ Routed
     /\ {"ollama", "openai"} \subseteq providers
     /\ NoStatsFor("ollama") /\ NoStatsFor("openai"))
    => /\ decision.ok
       /\ \A i, j \in 1..Len(decision.ranked) :
            LET a == decision.ranked[i]
                b == decision.ranked[j]
            IN  (a.provider = "ollama" /\ b.provider = "openai"
                 /\ a.capability = b.capability)
                => /\ a.cost = One /\ b.cost = Rat(55, 100)
                   /\ RatLess(b.score, a.score)
       /\ decision.selectedProvider # "openai"
       /\ providers = {"ollama", "openai"} => decision.selectedProvider = "ollama"

\* The two backends alone, nothing recorded, and a pair of A selected.
C10_Witness ==
    /\ Routed /\ decision.ok
    /\ providers = {"ollama", "openai"}
    /\ stats = NoFunction
    /\ decision.selectedProvider = "ollama"
    /\ decision.selectedModel = "llama2"

NamesBackend(request) == request.provider # "" /\ request.provider # "auto"

Invoked(s) == ~flight[s].busy /\ flight'[s].busy

\* C11: dispatching a request whose explicit backend is not in the
\* providers map fails with the "Provider <name> not available" error
\* naming that backend: no adapter is invoked, no other backend is tried
\* and no response is returned.
C11_UnregisteredBackendFails ==
    [][ncalls' = ncalls + 1
       => /\ \A s \in Slots :
               Invoked(s)
               => \/ ~NamesBackend([provider |-> flight'[s].reqProvider])
                  \/ flight'[s].reqProvider \in providers
          /\ (/\ done'.kind # "none"
              /\ NamesBackend([provider |-> done'.reqProvider])
              /\ done'.reqProvider \notin providers)
             => /\ done'.kind = "error"
                /\ done'.error = "ProviderNotAvailable"
                /\ done'.errProvider = done'.reqProvider
                /\ done'.response = NoResponse
                /\ flight' = flight
                /\ stats' = stats /\ hist' = hist
                /\ decision' = NoDecision]_vars

\* A backend with an adapter but without credentials was named while
\* others were available, and the call failed naming it.
C11_Witness ==
    /\ done.kind = "error" /\ done.error = "ProviderNotAvailable"
    /\ done.errProvider = "groq" /\ done.reqProvider = "groq"
    /\ providers # {}
    /\ \A s \in Slots : ~flight[s].busy

\* C12: every dispatch makes at most one adapter invocation: a suspended
\* dispatch stays as it is until its one call settles, a failed call is
\* handed to the caller as that backend's failure, and an adapter is
\* invoked only by a new processRequest call, once.
C12_SingleAdapterCall ==
    [][/\ \A s \in Slots :
            flight[s].busy
            => \/ flight'[s] = flight[s]
               \/ /\ ~flight'[s].busy
                  /\ done'.kind \in {"ok", "error"}
                  /\ done'.reqProvider = flight[s].reqProvider
                  /\ done'.kind = "error"
                     => /\ done'.error = "BackendError"
                        /\ done'.errProvider = flight[s].provider
                        /\ stats' = stats
                  /\ done'.kind = "ok"
                     => done'.response.provider = flight[s].provider
                  /\ \A t \in Slots : ~Invoked(t)
       /\ Cardinality({s \in Slots : Invoked(s)}) <= ncalls' - ncalls]_vars

\* An adapter call failed while other backends were available, and nothing
\* is in flight afterwards.
C12_Witness ==
    /\ done.kind = "error" /\ done.error = "BackendError"
    /\ Cardinality(providers) >= 2
    /\ \A s \in Slots : ~flight[s].busy

\* C13: the router is invoked if and only if the request's backend is
\* absent or 'auto'; the dispatch then uses the router's backend and model
\* whatever model the request carries; a request naming a backend is
\* dispatched to, and answered with, exactly its own backend and model.
C13_RouterOnlyWithoutBackend ==
    [][/\ ncalls' = ncalls + 1
          => /\ \A s \in Slots :
                  Invoked(s)
                  => IF NamesBackend([provider |-> flight'[s].reqProvider])
                     THEN /\ decision' = NoDecision
                          /\ flight'[s].provider = flight'[s].reqProvider
                          /\ flight'[s].model = flight'[s].reqModel
                     ELSE /\ decision' # NoDecision /\ decision'.ok
                          /\ flight'[s].provider = decision'.selectedProvider
                          /\ flight'[s].model = decision'.selectedModel
             /\ done'.kind = "error"
                => (decision' # NoDecision
                    <=> ~NamesBackend([provider |-> done'.reqProvider]))
             /\ (decision' # NoDecision /\ decision'.ok)
                => \E s \in Slots : Invoked(s)
       /\ (done'.kind = "ok" /\ NamesBackend([provider |-> done'.reqProvider]))
          => /\ done'.response.provider = done'.reqProvider
             /\ done'.response.model = done'.reqModel]_vars

\* A request without backend but with a model of its own was answered by
\* the router's pair, not with its model.
C13_Witness ==
    /\ done.kind = "ok" /\ done.routed
    /\ done.reqProvider = "auto" /\ done.reqModel = "gpt-4"
    /\ done.response.provider = "ollama"
    /\ done.response.model # done.reqModel

\* C14: every returned response has throughput = totalTokens /
\* (latency / 1000) when the latency is positive, and throughput 0 when the
\* latency is 0, whatever totalTokens is.
C14_ThroughputIsZeroAtLatencyZero ==
    done.kind = "ok"
    => LET r == done.response
       IN  /\ r.latency > 0 => r.throughput = Rat(r.totalTokens * 1000, r.latency)
           /\ r.latency = 0 => r.throughput = <<0, 1>>

\* C16: the router's candidates are exactly the pairs of the available
\* backends: every available backend, custom ones included, has a pair
\* among them, no unavailable backend has one, and the profile listing
\* still names the unavailable backends.
C16_CandidatesAreTheAvailableBackends ==
    Routed
    => /\ {decision.ranked[i].provider : i \in 1..Len(decision.ranked)} = providers
       /\ \A i \in 1..Len(decision.ranked) :
            decision.ranked[i].model \in ModelsOf(decision.ranked[i].provider)
       /\ BuiltIn \ providers \subseteq getAvailableProviders

RECURSIVE BagSum(_, _)
BagSum(B, field) ==
    IF B = EmptyBag THEN 0
    ELSE LET e == CHOOSE x \in BagToSet(B) : TRUE
         IN  NumAdd(e[field], BagSum(B (-) SetToBag({e}), field))

\* C17: after any sequence of dispatches, overlapping ones included, a key
\* has a stats entry iff a dispatch to it succeeded; totalRequests is the
\* number of the successful dispatches to it, totalTokens the sum of their
\* totalTokens and totalCost the sum of their costs.
C17_StatsCountSuccesses ==
    /\ DOMAIN stats = DOMAIN served
    /\ \A k \in DOMAIN stats :
         /\ stats[k].totalRequests >= 1
         /\ stats[k].totalRequests = BagCardinality(served[k])
         /\ stats[k].totalTokens = BagSum(served[k], "totalTokens")
         /\ stats[k].totalCost = BagSum(served[k], "cost")

\* Two answers for a key, the second while an overlapping dispatch to the
\* same key is still suspended.
C17_Witness ==
    /\ done.kind = "ok"
    /\ flight[2].busy /\ ~flight[1].busy
    /\ flight[2].provider = done.response.provider
    /\ flight[2].model = done.response.model
    /\ LET k == <<done.response.provider, done.response.model>>
       IN  /\ stats[k].totalRequests = 2
           /\ stats[k].totalTokens > 0

\* C22: every decision smartRouting returns has a confidence between 0
\* and 1, whatever the request and the statistics recorded so far.
C22_ConfidenceWithinUnitInterval ==
    (Routed /\ decision.ok)
    => /\ RatLeq(<<0, 1>>, decision.confidence)
       /\ RatLeq(decision.confidence, One)

\* A decision taken with a latency estimate on record for the chosen pair.
C22_Witness ==
    /\ Routed /\ decision.ok
    /\ <<decision.selectedProvider, decision.selectedModel>> \in DOMAIN stats
    /\ RatLess(<<0, 1>>, decision.confidence)

\* The pairs the router scored for the decision on record, in enumeration
\* order: registration order of the backends, then model-list order.
Enumerated ==
    ScoreProviders(Request("", "", decision.hasCode, decision.hasFiles),
                   availableProviders)

Maximal(e) == {i \in 1..Len(e) : \A j \in 1..Len(e) : RatLeq(e[j].score, e[i].score)}

\* C23: the router chooses a pair of maximal total score, and among the
\* pairs that tie for the maximum the one that comes first in enumeration
\* order.
C23_FirstOfTheBestPairs ==
    (Routed /\ decision.ok)
    => LET e     == Enumerated
           first == CHOOSE i \in Maximal(e) : \A j \in Maximal(e) : i <= j
       IN  /\ Maximal(e) # {}
           /\ decision.selectedProvider = e[first].provider
           /\ decision.selectedModel = e[first].model
           /\ decision.confidence = e[first].score

\* A decision among several pairs that tie for the maximum, with
\* statistics on record.
C23_Witness ==
    /\ Routed /\ decision.ok
    /\ Cardinality(Maximal(Enumerated)) > 1
    /\ stats # NoFunction

\* C24: every statistics entry has successRate 1: it is set to 1 on the
\* first observation and no dispatch, successful or failed, changes it.
C24_SuccessRateStaysOne ==
    \A key \in DOMAIN stats : stats[key].successRate = 1

\* An adapter failure on a pair that has two successes on record.
C24_Witness ==
    /\ done.kind = "error" /\ done.error = "BackendError"
    /\ \E key \in DOMAIN stats :
          /\ key[1] = done.errProvider
          /\ stats[key].totalRequests >= 2
          /\ stats[key].successRate = 1

---------------------------------------------------------------------------
(* Properties of the adapter calls *)

Sent == wire.call.messages

SystemSet == wire.request.systemPrompt # ""

Stored == IF wire.request.context.defined THEN wire.request.context.messages ELSE <<>>

\* The positions of the stored messages an adapter passes on.
Kept ==
    {i \in 1..Len(Stored) : wire.provider # "anthropic" \/ Stored[i].role # "system"}

\* C19: the message list an adapter sends is the system instruction first
\* (if set), then the context messages in their stored order, then the
\* prompt as the final user message.  The Anthropic adapter sends no
\* system-role message: those of the context are removed, the instruction
\* goes in the system parameter, the other messages keep their order and
\* the prompt is last.
C19_MessageListOrder ==
    wire.sent
    => LET lead == IF SystemSet /\ wire.provider # "anthropic" THEN 1 ELSE 0
       IN  /\ Len(Sent) = lead + Cardinality(Kept) + 1
           /\ Sent[Len(Sent)] = [role |-> "user", content |-> wire.request.prompt]
           /\ lead = 1
              => Sent[1] = [role |-> "system", content |-> wire.request.systemPrompt]
           /\ \A i \in Kept :
                LET n == lead + Cardinality({j \in Kept : j <= i})
                IN  /\ Sent[n].role = Stored[i].role
                    /\ Sent[n].content = Stored[i].content
           /\ wire.provider = "anthropic"
              => /\ \A n \in 1..Len(Sent) : Sent[n].role # "system"
                 /\ wire.call.system = wire.request.systemPrompt

\* The Anthropic adapter was handed an instruction and a context with a
\* system-role message between two others.
C19_Witness ==
    /\ wire.sent /\ wire.provider = "anthropic" /\ SystemSet
    /\ Len(Stored) = 3
    /\ Stored[1].role = "user" /\ Stored[2].role = "system"
    /\ Stored[3].role = "assistant"
    /\ Len(Sent) = 3

\* C20: every adapter passes max tokens and temperature on unchanged when
\* the request sets them, 0 included, and uses 1000 and 0.7 only when the
\* option is unset.
C20_OptionsPassedUnchanged ==
    wire.sent
    => /\ wire.call.max_tokens =
            IF wire.request.maxTokens = Undef THEN 1000 ELSE wire.request.maxTokens
       /\ wire.call.temperature =
            IF wire.request.temperature = Undef THEN 7 ELSE wire.request.temperature

---------------------------------------------------------------------------
(* Properties of comparison mode *)

Settled(state) == {i \in DOMAIN cmpResult.outcome : cmpResult.outcome[i] = state}

\* C5: with k >= 1 successful targets in the batch (in particular 3 targets
\* of which 1 throws and 2 succeed) the comparison returns success with
\* exactly those k responses.
C5_SuccessesAreCollected ==
    (cmpResult.returned /\ Settled("ok") # {})
    => /\ cmpResult.success
       /\ Len(cmpResult.results) = Cardinality(Settled("ok"))
       /\ \A n \in 1..Len(cmpResult.results) :
            \E i \in Settled("ok") :
               /\ cmpResult.results[n].provider = CompareProviders[i]
               /\ cmpResult.results[n].model = CompareModels[i]
               /\ Cardinality({j \in Settled("ok") : j < i}) = n - 1
       /\ (Cardinality(Settled("failed")) = 1 /\ Cardinality(Settled("ok")) = 2)
          => Len(cmpResult.results) = 2

\* Three targets launched, one threw, two answered, two results returned.
C5_Witness ==
    /\ cmpResult.returned /\ cmpResult.success
    /\ Cardinality(Settled("failed")) = 1
    /\ Cardinality(Settled("ok")) = 2
    /\ Len(cmpResult.results) = 2

\* C6: the comparison fails if and only if no target produced a response.
C6_FailsIffNoSuccess ==
    cmpResult.returned => (~cmpResult.success <=> Settled("ok") = {})

\* A batch whose launched targets all threw, reported as failed.
C6_Witness ==
    /\ cmpResult.returned /\ ~cmpResult.success
    /\ Cardinality(Settled("failed")) >= 2
    /\ Settled("ok") = {}

\* C15: a comparison launches the dispatches of all its available
\* targets together and returns only after each of them has settled; the
\* failure of one leaves the others to complete and be collected; if every
\* launched dispatch settles the comparison returns; and the results are
\* those of the answered targets in target order, whatever the order of
\* settling.
C15_WaitsForEveryTarget ==
    /\ [][/\ (~cmp.active /\ cmp'.active)
             => /\ \A i \in Targets :
                     isProviderAvailable(CompareProviders[i])
                     => cmp'.targets[i].state = "pending"
                /\ cmp'.order = <<>>
          /\ (cmp.active /\ cmpResult'.returned)
             => /\ Launched(cmp.targets) = {}
                /\ \A i \in Targets :
                     /\ isProviderAvailable(CompareProviders[i])
                        => cmpResult'.outcome[i] \in {"ok", "failed"}
                     /\ cmpResult'.outcome[i] = "ok"
                        => \E n \in 1..Len(cmpResult'.results) :
                              cmpResult'.results[n] = cmp.targets[i].response
                /\ \A m, n \in 1..Len(cmpResult'.results) :
                     m < n => \E i, j \in Targets :
                                 /\ i < j
                                 /\ cmpResult'.results[m].provider = CompareProviders[i]
                                 /\ cmpResult'.results[n].provider = CompareProviders[j]
          /\ \A i \in Targets :
               (cmp.active /\ cmp'.active /\ cmp'.targets[i] # cmp.targets[i])
               => /\ cmp.targets[i].state = "pending"
                  /\ cmp'.targets[i].state \in {"ok", "failed"}
                  /\ \A j \in Targets \ {i} : cmp'.targets[j] = cmp.targets[j]]_vars
    /\ cmp.active ~> cmpResult.returned

\* The last target settled first and failed, the first target settled
\* last, and the two answers were returned in target order.
C15_Witness ==
    /\ cmpResult.returned /\ cmpResult.success
    /\ cmpResult.order = <<3, 2, 1>>
    /\ cmpResult.outcome[3] = "failed"
    /\ Len(cmpResult.results) = 2
    /\ cmpResult.results[1].provider = CompareProviders[1]
    /\ cmpResult.results[2].provider = CompareProviders[2]

---------------------------------------------------------------------------
(* Properties of the user manager *)

\* The counters a subscription key shows.
UsageOf(heap, key) == heap[subscriptions[key].usage]

\* C27: usage is kept per user: an updateUsage call for one (team, user)
\* key changes the counters of that key only; the counters of every other
\* key, the default subscription's included, stay as they are.
C27_UsagePerUser ==
    [][\A user \in Users :
          (cmp.active /\ ~cmp'.active /\ cmp.user = user)
          => \A key \in DOMAIN subscriptions \ {SubscriptionKey(user, Team)} :
                UsageOf(usageObj', key) = UsageOf(usageObj, key)]_vars

---------------------------------------------------------------------------
(* Properties of the ask commands and channel messages *)

\* The user's subscription is not active or the requests of the month have
\* reached the limit.
Exhausted(user) ==
    LET sub == getUserSubscription(subscriptions, user, Team)[SubscriptionKey(user, Team)]
    IN  \/ sub.status # "active"
        \/ usageObj[sub.usage].requestsThisMonth >= sub.monthlyRequests

\* C18: the quota is checked before the engine is invoked: when the
\* user's subscription is not active or requestsThisMonth has reached
\* monthlyRequests, processCommand and handleMessage dispatch nothing,
\* append nothing to the conversation, change no usage counter and answer
\* with a rejection.
C18_QuotaCheckedBeforeDispatch ==
    [][\A kind \in AskKinds : \A user \in Askers : \A channel \in Channels :
          \A emptyPrompt \in BOOLEAN : \A provider \in AskBackends :
             (Exhausted(user) /\ AskCommand(kind, user, channel, emptyPrompt, provider))
             => /\ said'.returned /\ ~said'.success
                /\ ask' = ask /\ flight' = flight
                /\ decision' = decision /\ done' = done
                /\ stats' = stats /\ served' = served
                /\ redis' = redis
                /\ usageObj' = usageObj]_vars

\* A channel message turned down at the limit of 100 requests, with the
\* conversation and the counters as the 100th request left them.
C18_Witness ==
    /\ said.returned /\ ~said.success
    /\ said.kind = "message" /\ said.reason = "limit"
    /\ usageObj[DefaultUsage].requestsThisMonth = MonthlyRequests
    /\ \A kind \in AskKinds : ~ask[kind].active

\* The messages stored under a conversation key.
Conversation(store, key) == IF key \in DOMAIN store THEN store[key].messages ELSE <<>>

\* The usage object of a user's subscription.
UsageRef(user) == subscriptions[SubscriptionKey(user, Team)].usage

\* A step in which the handler of the given kind answers with success.
Answers(kind) ==
    /\ ask[kind].active /\ ~ask'[kind].active
    /\ said'.returned /\ said'.success /\ said'.kind = kind

\* A step in which a handler answers that the dispatch failed.
Fails == said'.returned /\ ~said'.success /\ said'.reason = "error"

\* What C25 says of the user's counters and of the other conversations.
CountedOnce(kind) ==
    LET u   == ask[kind].user
        key == ConversationKey(u, ask[kind].channel)
    IN  /\ usageObj'[UsageRef(u)].requestsThisMonth =
              usageObj[UsageRef(u)].requestsThisMonth + 1
        /\ usageObj'[UsageRef(u)].tokensThisMonth =
              usageObj[UsageRef(u)].tokensThisMonth + done'.response.totalTokens
        /\ usageObj'[UsageRef(u)].costThisMonth =
              NumAdd(usageObj[UsageRef(u)].costThisMonth, done'.response.cost)
        /\ DOMAIN redis' = DOMAIN redis \cup {key}
        /\ \A other \in DOMAIN redis \ {key} : redis'[other] = redis[other]

JoinsWithFailure ==
    /\ cmp.active /\ ~cmp'.active
    /\ \E i \in Targets : cmp.targets[i].state = "failed"

\* The dispatch of a comparison target fails.
TargetFails ==
    \E i \in Targets : cmp.targets[i].state = "pending" /\ cmp'.targets[i].state = "failed"

\* C26 as stated: a failed dispatch leaves no trace in the accounts: when
\* processRequest fails, no statistics entry is created or changed, and
\* the calling command, whichever it is, appends nothing to the
\* conversation, leaves the usage counters as they are and reports no
\* success.
C26_FailedDispatchFailsTheCommand ==
    [][/\ (done'.kind = "error" /\ done.kind # "error")
          => /\ Fails
             /\ stats' = stats /\ hist' = hist /\ served' = served
             /\ redis' = redis /\ appended' = appended
             /\ usageObj' = usageObj
       /\ TargetFails
          => /\ stats' = stats /\ hist' = hist /\ served' = served
             /\ redis' = redis /\ usageObj' = usageObj
       /\ JoinsWithFailure
          => /\ ~cmpResult'.success
             /\ redis' = redis /\ usageObj' = usageObj]_vars

\* C26, amended: the failed dispatch itself is accounted nowhere, and a
\* command other than a comparison reports no success; a comparison
\* command drops the failed target, reports no success only when no
\* target has answered, and accounts the targets that have.
C26_FailedDispatchLeavesNoTrace ==
    [][/\ (done'.kind = "error" /\ done.kind # "error")
          => /\ Fails
             /\ stats' = stats /\ hist' = hist /\ served' = served
             /\ redis' = redis /\ appended' = appended
             /\ usageObj' = usageObj
       /\ TargetFails
          => /\ stats' = stats /\ hist' = hist /\ served' = served
             /\ redis' = redis /\ usageObj' = usageObj
       /\ JoinsWithFailure
          => /\ cmpResult'.success = (Len(cmpResult'.results) > 0)
             /\ redis' = redis
             /\ usageObj'[DefaultUsage].requestsThisMonth =
                   usageObj[DefaultUsage].requestsThisMonth + Len(cmpResult'.results)
             /\ Len(cmpResult'.results) =
                   Cardinality({i \in Targets : cmpResult'.outcome[i] = "ok"})]_vars

\* A command answered with a failure after the backend's error, with
\* statistics, a conversation and usage on record.
C26_Witness ==
    /\ said.returned /\ ~said.success /\ said.reason = "error"
    /\ done.kind = "error" /\ done.error = "BackendError"
    /\ stats # NoFunction /\ redis # NoFunction
    /\ usageObj[DefaultUsage].requestsThisMonth > 0

\* C28: each user's requestsThisMonth is at most the monthly limit of the
\* user's subscription, in every reachable state.
C28_RequestsWithinMonthlyLimit ==
    \A key \in DOMAIN subscriptions \ {DefaultKey} :
        usageObj[subscriptions[key].usage].requestsThisMonth
            <= subscriptions[key].monthlyRequests

---------------------------------------------------------------------------
(* Properties of the conversation manager *)

\* C7: after n sequential addMessage calls for a conversation the stored
\* context holds exactly the last min(n, 20) appended messages, in their
\* order; it never holds more than 20.
C7_LastTwentyKept ==
    /\ DOMAIN redis = DOMAIN appended
    /\ \A key \in DOMAIN appended :
         LET n      == Len(appended[key])
             stored == getContext(redis, key).context.messages
         IN  /\ Len(stored) = Min(n, MaxMessages)
             /\ Len(stored) <= 20
             /\ \A i \in 1..Len(stored) :
                  stored[i] = appended[key][n - Len(stored) + i]

\* 25 messages appended, the 6th to the 25th retained.
C7_Witness ==
    \E key \in DOMAIN appended :
        /\ Len(appended[key]) = 25
        /\ Len(redis[key].messages) = 20
        /\ redis[key].messages[1].content = 6
        /\ redis[key].messages[20].content = 25

---------------------------------------------------------------------------
(* Properties of the custom endpoints *)

\* The entries of the list, and the place of an entry's first colon (0
\* when it has none): the name is what stands before it, the url all that
\* follows it.
Entries == IF customEndpoints = <<>> THEN <<>> ELSE split(customEndpoints, ",")

FirstColon(e) ==
    IF \A i \in 1..Len(e) : e[i] # ":" THEN 0
    ELSE CHOOSE i \in 1..Len(e) : e[i] = ":" /\ \A k \in 1..(i - 1) : e[k] # ":"

NameOf(e) == SubSeq(e, 1, FirstColon(e) - 1)

UrlOf(e) == SubSeq(e, FirstColon(e) + 1, Len(e))

WellFormed(e) == FirstColon(e) # 0 /\ NameOf(e) # <<>> /\ UrlOf(e) # <<>>

HasScheme(url) ==
    \E i \in 1..(Len(url) - 2) : url[i] = ":" /\ url[i + 1] = "/" /\ url[i + 2] = "/"

\* C21: for every entry name:url of the custom endpoint list with a
\* non-empty name and url (and a name no other entry has), the constructed
\* manager has an available backend custom_<name> whose base URL is the
\* whole url, with http:// in front only when the url has no scheme.
C21_CustomEndpointKeepsItsUrl ==
    constructed =>
        \A i \in 1..Len(Entries) :
            LET e == Entries[i]
            IN  (/\ WellFormed(e)
                 /\ \A j \in 1..Len(Entries) :
                       (j # i /\ WellFormed(Entries[j]))
                       => NameOf(Entries[j]) # NameOf(e))
                => /\ CustomKey(NameOf(e)) \in providers
                   /\ CustomKey(NameOf(e)) \in DOMAIN customBackends
                   /\ customBackends[CustomKey(NameOf(e))].baseURL =
                         IF HasScheme(UrlOf(e)) THEN UrlOf(e)
                         ELSE <<"http", ":", "/", "/">> \o UrlOf(e)

\* The store handles the write of the call in slot s.
Writes(s) == adding[s].busy /\ ~adding'[s].busy

\* Every message of the sequence before is in the sequence after.
AllKept(before, after) ==
    \A i \in 1..Len(before) : \E j \in 1..Len(after) : after[j] = before[i]

\* C29: no message is lost to a race: when addMessage calls for one key
\* overlap, the write of a call (whose read was answered) leaves every
\* message in the context that the key held before, as long as the cap of
\* 20 messages is not reached.
C29_NoMessageLostToARace ==
    [][\A s \in AddSlots :
          (Writes(s) /\ ~adding[s].readFailed)
          => LET before == Conversation(redis, adding[s].key)
                 after  == Conversation(redis', adding[s].key)
             IN  Len(before) < MaxMessages => AllKept(before, after)]_vars

\* C30: addMessage only appends and trims: when its read of the store
\* fails while the key holds a context, the write keeps the messages the
\* key held (below the cap of 20) and the totalTokens counter does not
\* decrease.
C30_FailedReadKeepsTheContext ==
    [][\A s \in AddSlots :
          (Writes(s) /\ adding[s].readFailed /\ adding[s].stored)
          => LET key == adding[s].key
             IN  /\ Len(Conversation(redis, key)) < MaxMessages
                    => AllKept(Conversation(redis, key), Conversation(redis', key))
                 /\ redis'[key].totalTokens >= redis[key].totalTokens]_vars

====
